---- MODULE Spec2Model ----
(***************************************************************************)
(* Model of package eplogger (jwenz723/kit-mw): the endpoint logging       *)
(* middleware LoggingMiddleware, its helper makeKeyvals and the            *)
(* AppendKeyvalser capability, with the go-kit endpoint and the two        *)
(* log.Logger sinks as the environment.                                    *)
(***************************************************************************)
EXTENDS Integers, Sequences, FiniteSets, TLC

(***************************************************************************)
(* Bounds of the model.                                                    *)
(***************************************************************************)
\* number of invocations of the wrapped endpoint that may overlap (SpecConc)
NumCalls == 2
\* largest reading of the monotonic clock
MaxClock == 1

Calls == 1 .. NumCalls

(***************************************************************************)
(* Go interface{} values: a dynamic type and a value.  The nil interface   *)
(* has no dynamic type.                                                    *)
(***************************************************************************)
Iface(t, v) == [type |-> t, val |-> v]

Nil == Iface("nil", "nil")

String(s) == Iface("string", s)

Duration(n) == Iface("time.Duration", n)

IntValue(n) == Iface("int", n)

ErrorString(text) == Iface("*errors.errorString", text)

AppendKeyvalserTest(StringField) == Iface("AppendKeyvalserTest", StringField)

SumRequest(A, B) == Iface("SumRequest", <<A, B>>)

tookKey == "took"

transErrKey == "transport_error"

stringFieldKey == "StringField"

(***************************************************************************)
(* The AppendKeyvalser capability.                                         *)
(***************************************************************************)
\* func (l AppendKeyvalserTest) AppendKeyvals(keyvals) []interface{}
AppendKeyvalserTest_AppendKeyvals(l, keyvals) ==
    keyvals \o <<String(stringFieldKey), String(l.val)>>

\* func (s SumRequest) AppendKeyvals(keyvals) []interface{}
SumRequest_AppendKeyvals(s, keyvals) ==
    keyvals \o <<String("SumRequest.A"), IntValue(s.val[1]),
                 String("SumRequest.B"), IntValue(s.val[2])>>

\* the type assertion v.(AppendKeyvalser): ok exactly for the types that
\* have the method; the nil interface and a plain string do not
IsAppendKeyvalser(v) == v.type \in {"AppendKeyvalserTest", "SumRequest"}

\* dynamic dispatch of l.AppendKeyvals(keyvals)
AppendKeyvals(l, keyvals) ==
    IF l.type = "AppendKeyvalserTest"
    THEN AppendKeyvalserTest_AppendKeyvals(l, keyvals)
    ELSE SumRequest_AppendKeyvals(l, keyvals)

(***************************************************************************)
(* makeKeyvals                                                             *)
(***************************************************************************)
\* variant: the response is tested only when the request is no AppendKeyvalser
makeKeyvalsElseIf(req, resp, d, err) ==
    LET KVs0 == <<String(transErrKey), err, String(tookKey), Duration(d)>>
    IN  IF IsAppendKeyvalser(req) THEN AppendKeyvals(req, KVs0)
        ELSE IF IsAppendKeyvalser(resp) THEN AppendKeyvals(resp, KVs0)
        ELSE KVs0

makeKeyvals(req, resp, d, err) ==
    LET KVs0 == <<String(transErrKey), err, String(tookKey), Duration(d)>>
        KVs1 == IF IsAppendKeyvalser(req) THEN AppendKeyvals(req, KVs0) ELSE KVs0
        KVs2 == IF IsAppendKeyvalser(resp) THEN AppendKeyvals(resp, KVs1) ELSE KVs1
    IN  KVs2

(***************************************************************************)
(* The environment: sinks, endpoint results, caller inputs.                *)
(***************************************************************************)
\* the two log.Logger values handed to LoggingMiddleware, and the nil Logger
SuccessSink == "logger"

FailureSink == "errLogger"

NilLogger == "nil"

Sinks == {SuccessSink, FailureSink}

\* what a sink's Log(keyvals...) does: return nil, return an error, or panic
LogResults == {"nil", "error", "panic"}

\* request and response values the callers and the inner endpoint use
Requests == {String("req string"), AppendKeyvalserTest("req string"), SumRequest(2, 3)}

Responses == {String("resp string"), AppendKeyvalserTest("resp string")}

Errors == {Nil, ErrorString("an error")}

\* the context.Context the caller of invocation c passes
CallerCtx(c) == <<"ctx", c>>

VARIABLES
    active,     \* the invocations the callers make in this behaviour
    mw,         \* the references LoggingMiddleware captured: logger, errLogger
    now,        \* the monotonic clock time.Now() and time.Since() read
    pc,         \* pc[c]: where invocation c of the wrapped endpoint is
    ctx,        \* ctx[c], request[c]: the wrapper's parameters
    request,
    begin,      \* begin[c]: the deferred function's argument, time.Now()
    response,   \* response[c], err[c]: the wrapper's named results
    err,
    panicking,  \* panicking[c]: a panic of next is unwinding the wrapper
    nextCalls,  \* nextCalls[c]: the arguments next was invoked with
    nextRet,    \* nextRet[c]: what next did: returned (response, err) or panicked
    ret,        \* ret[c]: what the wrapper returned to its caller
    log         \* log[s]: the Log calls sink s received, in order

vars == <<active, mw, now, pc, ctx, request, begin, response, err, panicking,
          nextCalls, nextRet, ret, log>>

\* the (response, err) pair of a Go return
Results(r, e) == [response |-> r, err |-> e]

NoResults == [outcome |-> "none", response |-> Nil, err |-> Nil]

\* what next did, and the clock reading when it did
NextResult(o, r, e) == [outcome |-> o, response |-> r, err |-> e, at |-> now]

(***************************************************************************)
(* LoggingMiddleware                                                       *)
(***************************************************************************)
\* LoggingMiddleware(logger, errLogger): the closure keeps both references
\* as they were passed
LoggingMiddleware(logger, errLogger) == [logger |-> logger, errLogger |-> errLogger]

\* variant: the operands of the subtraction exchanged
SinceReversed(b) == b - now

\* time.Since(begin) on the monotonic clock
Since(b) == now - b

\* variant: the two branches exchanged
SelectLoggerSwapped(e) == IF e # Nil THEN mw.logger ELSE mw.errLogger

\* variant: logger.Log whatever err is
SelectLoggerIgnoresErr(e) == mw.logger

\* if err != nil { errLogger.Log } else { logger.Log }: the Logger called
SelectLogger(e) == IF e # Nil THEN mw.errLogger ELSE mw.logger

\* variant: err = Log(kvs...), the sink's error stored in the named result
ResultsAfterLogKeepsLogErr(r, e, logResult) ==
    Results(r, IF logResult = "error" THEN ErrorString("log failed") ELSE e)

\* the deferred function drops what Log returned: the named results are
\* returned as next set them
ResultsAfterLog(r, e, logResult) == Results(r, e)

\* variant: the deferred function calls recover()
ExitAfterDeferRecovers(unwinding, logResult) == "returned"

\* how the wrapper exits once the deferred function is done: nothing
\* recovers a panic, be it next's or the sink's
ExitAfterDefer(unwinding, logResult) ==
    IF unwinding \/ logResult = "panic" THEN "panicked" ELSE "returned"

\* the arguments of next(ctx, request)
NextArgs(c) == [ctx |-> ctx[c], request |-> request[c]]

\* the state once LoggingMiddleware(logger, errLogger)(next) has been built;
\* errLogger is passed or left nil (README: "errLogger is optional")
Built ==
    /\ mw \in {LoggingMiddleware(SuccessSink, e) : e \in {FailureSink, NilLogger}}
    /\ now = 0
    /\ pc = [c \in Calls |-> "idle"]
    /\ ctx = [c \in Calls |-> Nil]
    /\ request = [c \in Calls |-> Nil]
    /\ begin = [c \in Calls |-> 0]
    /\ response = [c \in Calls |-> Nil]
    /\ err = [c \in Calls |-> Nil]
    /\ panicking = [c \in Calls |-> FALSE]
    /\ nextCalls = [c \in Calls |-> <<>>]
    /\ nextRet = [c \in Calls |-> [outcome |-> "none", response |-> Nil, err |-> Nil, at |-> 0]]
    /\ ret = [c \in Calls |-> NoResults]
    /\ log = [s \in Sinks |-> <<>>]

\* the monotonic clock advances
Tick ==
    /\ now < MaxClock
    /\ now' = now + 1
    /\ UNCHANGED <<active, mw, pc, ctx, request, begin, response, err, panicking,
                   nextCalls, nextRet, ret, log>>

\* a caller invokes the wrapped endpoint: the named results are nil, the
\* defer statement evaluates time.Now(), and next(ctx, request) is entered
Call(c, req) ==
    /\ c \in active
    /\ pc[c] = "idle"
    /\ ctx' = [ctx EXCEPT ![c] = CallerCtx(c)]
    /\ request' = [request EXCEPT ![c] = req]
    /\ response' = [response EXCEPT ![c] = Nil]
    /\ err' = [err EXCEPT ![c] = Nil]
    /\ begin' = [begin EXCEPT ![c] = now]
    /\ nextCalls' = [nextCalls EXCEPT ![c] = Append(@, NextArgs(c)')]
    /\ pc' = [pc EXCEPT ![c] = "next"]
    /\ UNCHANGED <<active, mw, now, panicking, nextRet, ret, log>>

\* next returns (resp, e): `return next(ctx, request)` stores them in the
\* named results before the deferred function runs
NextReturns(c, resp, e) ==
    /\ pc[c] = "next"
    /\ nextRet' = [nextRet EXCEPT ![c] =
                      NextResult("returned", resp, e)]
    /\ response' = [response EXCEPT ![c] = resp]
    /\ err' = [err EXCEPT ![c] = e]
    /\ pc' = [pc EXCEPT ![c] = "defer"]
    /\ UNCHANGED <<active, mw, now, ctx, request, begin, panicking, nextCalls, ret, log>>

\* next panics: the named results keep their zero values and the deferred
\* function runs while the panic unwinds
NextPanics(c) ==
    /\ pc[c] = "next"
    /\ nextRet' = [nextRet EXCEPT ![c] =
                      NextResult("panicked", Nil, Nil)]
    /\ panicking' = [panicking EXCEPT ![c] = TRUE]
    /\ pc' = [pc EXCEPT ![c] = "defer"]
    /\ UNCHANGED <<active, mw, now, ctx, request, begin, response, err, nextCalls, ret, log>>

\* the deferred function: makeKeyvals, then Log on the selected Logger,
\* which returns nil or an error, or panics
DeferredLog(c, logResult) ==
    /\ pc[c] = "defer"
    /\ SelectLogger(err[c]) # NilLogger
    /\ LET kvs == makeKeyvals(request[c], response[c], Since(begin[c]), err[c])
           exit == ExitAfterDefer(panicking[c], logResult)
       IN  /\ log' = [log EXCEPT ![SelectLogger(err[c])] =
                         Append(@, [call |-> c, keyvals |-> kvs, result |-> logResult])]
           /\ pc' = [pc EXCEPT ![c] = exit]
           /\ ret' = [ret EXCEPT ![c] =
                         IF exit = "returned"
                         THEN [outcome |-> "returned"] @@
                              ResultsAfterLog(response[c], err[c], logResult)
                         ELSE @]
    /\ UNCHANGED <<active, mw, now, ctx, request, begin, response, err, panicking,
                   nextCalls, nextRet>>

\* the deferred function with a nil Logger selected: makeKeyvals runs, the
\* method call on the nil interface panics, nothing is logged
DeferredNilLogger(c) ==
    /\ pc[c] = "defer"
    /\ SelectLogger(err[c]) = NilLogger
    /\ pc' = [pc EXCEPT ![c] = "panicked"]
    /\ UNCHANGED <<active, mw, now, ctx, request, begin, response, err, panicking,
                   nextCalls, nextRet, ret, log>>

Next ==
    \/ Tick
    \/ \E c \in Calls, req \in Requests : Call(c, req)
    \/ \E c \in Calls, resp \in Responses, e \in Errors : NextReturns(c, resp, e)
    \/ \E c \in Calls : NextPanics(c)
    \/ \E c \in Calls, logResult \in LogResults : DeferredLog(c, logResult)
    \/ \E c \in Calls : DeferredNilLogger(c)

\* one invocation of the wrapped endpoint
Init == active = {1} /\ Built

Spec == Init /\ [][Next]_vars

\* NumCalls invocations of the same wrapped endpoint, from as many
\* goroutines, interleaved in every way
InitConc == active = Calls /\ Built

SpecConc == InitConc /\ [][Next]_vars

(***************************************************************************)
(* Properties                                                              *)
(***************************************************************************)
Done(c) == pc[c] \in {"returned", "panicked"}

\* the Log calls sink s received from invocation c
Entries(s, c) == SelectSeq(log[s], LAMBDA e : e.call = c)

\* all Log calls of invocation c, the success sink's first
AllEntries(c) == Entries(SuccessSink, c) \o Entries(FailureSink, c)

Emitted(c) == Len(AllEntries(c))

\* the pairs a value contributes: none unless it is an AppendKeyvalser
Contributed(v) == IF IsAppendKeyvalser(v) THEN AppendKeyvals(v, <<>>) ELSE <<>>

\* the number of pairs each contributor type appends
PairCount(v) ==
    IF v.type = "AppendKeyvalserTest" THEN 1
    ELSE IF v.type = "SumRequest" THEN 2
    ELSE 0

\* what invocation c returned to its caller is what next returned
ReturnedNextResult(c) ==
    /\ pc[c] = "returned"
    /\ ret[c].outcome = "returned"
    /\ ret[c].response = nextRet[c].response
    /\ ret[c].err = nextRet[c].err

\* C1: when next returns a nil error, the one sequence built for the call is
\* delivered to the success sink and nothing to the failure sink, for every
\* request and response
C1_NilErrorToSuccessSink ==
    \A c \in Calls :
        (nextRet[c].outcome = "returned" /\ nextRet[c].err = Nil) =>
            /\ Entries(FailureSink, c) = <<>>
            /\ Done(c) =>
                /\ Len(Entries(SuccessSink, c)) = 1
                /\ LET kv == Entries(SuccessSink, c)[1].keyvals
                   IN  kv = makeKeyvals(request[c], nextRet[c].response, kv[4].val, Nil)

C1_Witness ==
    \E c \in Calls :
        /\ Done(c)
        /\ nextRet[c].outcome = "returned"
        /\ nextRet[c].err = Nil
        /\ IsAppendKeyvalser(request[c])
        /\ IsAppendKeyvalser(response[c])
        /\ Len(Entries(SuccessSink, c)) = 1

\* C2: with a failure sink configured, when next returns a non-nil error the
\* sequence is delivered to the failure sink, once, and nothing to the
\* success sink
C2_ErrorToFailureSink ==
    \A c \in Calls :
        (mw.errLogger = FailureSink /\ nextRet[c].outcome = "returned"
                                     /\ nextRet[c].err # Nil) =>
            /\ Entries(SuccessSink, c) = <<>>
            /\ Done(c) =>
                /\ Len(Entries(FailureSink, c)) = 1
                /\ LET kv == Entries(FailureSink, c)[1].keyvals
                   IN  kv = makeKeyvals(request[c], nextRet[c].response, kv[4].val,
                                        nextRet[c].err)

C2_Witness ==
    \E c \in Calls :
        /\ Done(c)
        /\ mw.errLogger = FailureSink
        /\ nextRet[c].outcome = "returned"
        /\ nextRet[c].err # Nil
        /\ Len(Entries(FailureSink, c)) = 1

\* C3: built with errLogger nil, the success sink is used for all outcomes: a
\* call whose next returns a non-nil error has its sequence delivered to the
\* success sink and still returns next's response and error
C3_NilErrLoggerUsesLogger ==
    \A c \in Calls :
        (mw.errLogger = NilLogger /\ Done(c) /\ nextRet[c].outcome = "returned"
                                  /\ nextRet[c].err # Nil) =>
            /\ Len(Entries(SuccessSink, c)) = 1
            /\ ReturnedNextResult(c)

\* C4: the response and error returned to the caller are those next
\* returned, whether Log returned nil or an error; the sink's error reaches
\* neither the caller nor another sink, and Log is not called again
C4_ResultUnchanged ==
    \A c \in Calls :
        /\ pc[c] = "returned" => ReturnedNextResult(c)
        /\ \A s \in Sinks : \A i \in 1 .. Len(log[s]) :
             (log[s][i].call = c /\ log[s][i].result \in {"nil", "error"}
                                 /\ nextRet[c].outcome = "returned") =>
                 /\ ReturnedNextResult(c)
                 /\ Emitted(c) = 1

C4_Witness ==
    \E c \in Calls :
        /\ pc[c] = "returned"
        /\ Emitted(c) = 1
        /\ AllEntries(c)[1].result = "error"
        /\ nextRet[c].err = Nil
        /\ ret[c].err = Nil

\* C5: a sink that panics in Log does not crash the call: the wrapped
\* endpoint still returns next's response and error
C5_SinkPanicContained ==
    \A c \in Calls :
        (nextRet[c].outcome = "returned" /\ Emitted(c) > 0
                                         /\ AllEntries(c)[1].result = "panic") =>
            ReturnedNextResult(c)

C8_OneCallOneEmission ==
    \A c \in Calls :
        /\ pc[c] \in {"defer", "returned", "panicked"} =>
               nextCalls[c] = <<[ctx |-> CallerCtx(c), request |-> request[c]]>>
        /\ pc[c] \in {"idle", "next", "defer"} => Emitted(c) = 0
        /\ Done(c) => Emitted(c) = 1

\* C9: overlapping invocations are independent: each emits exactly one
\* sequence, built from its own request, response, error and duration, and
\* returns its own result
C9_CallsIndependent ==
    \A c \in Calls :
        (Done(c) /\ \E o \in Calls \ {c} : pc[o] # "idle") =>
            /\ Emitted(c) = 1
            /\ LET kv == AllEntries(c)[1].keyvals
               IN  /\ kv = makeKeyvals(request[c], nextRet[c].response, kv[4].val,
                                       nextRet[c].err)
                   /\ kv[4].val <= now - begin[c]
            /\ pc[c] = "returned" => ReturnedNextResult(c)

\* C10: when next panics, one sequence is still emitted, to the success
\* sink, with a nil error and no response pairs, never to the failure sink,
\* and the panic goes on to the caller
C10_NextPanicLogged ==
    \A c \in Calls :
        (Done(c) /\ nextRet[c].outcome = "panicked") =>
            /\ pc[c] = "panicked"
            /\ ret[c].outcome = "none"
            /\ Entries(FailureSink, c) = <<>>
            /\ Len(Entries(SuccessSink, c)) = 1
            /\ LET kv == Entries(SuccessSink, c)[1].keyvals
               IN  /\ kv = makeKeyvals(request[c], Nil, kv[4].val, Nil)
                   /\ kv[2] = Nil
                   /\ Len(kv) = 4 + 2 * PairCount(request[c])

C10_Witness ==
    \E c \in Calls :
        /\ pc[c] = "panicked"
        /\ nextRet[c].outcome = "panicked"
        /\ mw.errLogger = NilLogger
        /\ IsAppendKeyvalser(request[c])
        /\ Len(Entries(SuccessSink, c)) = 1

====
